---- MODULE Spec2Model ----
(***************************************************************************)
(* Model of the three migration scripts of database_util:                  *)
(*   openwebui-migration.py     migrate()        SQLite -> PostgreSQL      *)
(*   improved-data-transfer.py  transfer_data()  PostgreSQL -> PostgreSQL  *)
(*   simple-migration.py        migrate_simple() SQLite -> PostgreSQL      *)
(* The scripts are sequential; each action below is one step of one script *)
(* (one statement group between two database calls).  The target database  *)
(* is a psycopg2 connection in its default (non-autocommit) mode: a failed *)
(* statement aborts the open transaction, every later statement then fails *)
(* until commit() or rollback(), and commit() of an aborted transaction    *)
(* discards it.                                                            *)
(***************************************************************************)
EXTENDS Integers, Sequences, FiniteSets, TLC

(* ------------------------------ bounds -------------------------------- *)
\* tables listed by the catalog query in one run
NTables == 2
\* most rows a source table holds
MaxRows == 3
\* rows already in a target table before the run
MaxOld == 1
\* environment faults (a failing read, reset, create, commit, connect) per run
MaxFaults == 1
\* batch size of migrate; the script sets 500 (openwebui-migration.py:17),
\* scaled down so that a table of MaxRows rows spans more than one batch
BATCH_SIZE == 2

(* --------------------------- program constants ------------------------ *)
MAX_RETRIES == 3

(* ----------------------------- identifiers ---------------------------- *)
\* An identifier is the sequence of its characters, so that str.lower()
\* is computed and not assumed.
Id_chat == <<"c", "h", "a", "t">>
Id_Order == <<"O", "r", "d", "e", "r">>
Id_MigrateHistory == <<"M", "i", "g", "r", "a", "t", "e", "H", "i", "s", "t", "o", "r", "y">>
Id_alembic_version == <<"a", "l", "e", "m", "b", "i", "c", "_", "v", "e", "r", "s", "i", "o", "n">>
Id_id == <<"i", "d">>
Id_Group == <<"G", "r", "o", "u", "p">>
Id_extra == <<"e", "x", "t", "r", "a">>

UpperToLower ==
    "A" :> "a" @@ "B" :> "b" @@ "C" :> "c" @@ "D" :> "d" @@ "E" :> "e" @@ "F" :> "f" @@
    "G" :> "g" @@ "H" :> "h" @@ "I" :> "i" @@ "J" :> "j" @@ "K" :> "k" @@ "L" :> "l" @@
    "M" :> "m" @@ "N" :> "n" @@ "O" :> "o" @@ "P" :> "p" @@ "Q" :> "q" @@ "R" :> "r" @@
    "S" :> "s" @@ "T" :> "t" @@ "U" :> "u" @@ "V" :> "v" @@ "W" :> "w" @@ "X" :> "x" @@
    "Y" :> "y" @@ "Z" :> "z"

LowerChar(c) == IF c \in DOMAIN UpperToLower THEN UpperToLower[c] ELSE c

\* str.lower()
Lower(s) == [i \in DOMAIN s |-> LowerChar(s[i])]

reserved_keywords ==
    { <<"u", "s", "e", "r">>,
      <<"g", "r", "o", "u", "p">>,
      <<"o", "r", "d", "e", "r">>,
      <<"t", "a", "b", "l", "e">>,
      <<"s", "e", "l", "e", "c", "t">>,
      <<"w", "h", "e", "r", "e">>,
      <<"f", "r", "o", "m">>,
      <<"i", "n", "d", "e", "x">>,
      <<"c", "o", "n", "s", "t", "r", "a", "i", "n", "t">>,
      <<"f", "u", "n", "c", "t", "i", "o", "n">>,
      <<"p", "r", "o", "c", "e", "d", "u", "r", "e">>,
      <<"t", "r", "i", "g", "g", "e", "r">>,
      <<"v", "i", "e", "w">>,
      <<"s", "c", "h", "e", "m", "a">>,
      <<"d", "a", "t", "a", "b", "a", "s", "e">>,
      <<"c", "o", "l", "u", "m", "n">>,
      <<"p", "r", "i", "m", "a", "r", "y">>,
      <<"f", "o", "r", "e", "i", "g", "n">>,
      <<"k", "e", "y">>,
      <<"r", "e", "f", "e", "r", "e", "n", "c", "e", "s">>,
      <<"u", "n", "i", "q", "u", "e">>,
      <<"c", "h", "e", "c", "k">>,
      <<"d", "e", "f", "a", "u", "l", "t">>,
      <<"n", "u", "l", "l">>,
      <<"n", "o", "t">> }

simple_reserved == { <<"u", "s", "e", "r">>, <<"g", "r", "o", "u", "p">>, <<"o", "r", "d", "e", "r">> }

system_tables == { <<"m", "i", "g", "r", "a", "t", "e", "h", "i", "s", "t", "o", "r", "y">>,
                   <<"a", "l", "e", "m", "b", "i", "c", "_", "v", "e", "r", "s", "i", "o", "n">>,
                   <<"s", "q", "l", "i", "t", "e", "_", "s", "e", "q", "u", "e", "n", "c", "e">> }

sql_excluded_tables == { <<"a", "l", "e", "m", "b", "i", "c", "_", "v", "e", "r", "s", "i", "o", "n">>,
                         <<"m", "i", "g", "r", "a", "t", "e", "h", "i", "s", "t", "o", "r", "y">> }

(* ------------------------- identifier quoting ------------------------- *)
\* A quoted-or-bare identifier as it appears in a generated statement.
get_pg_safe_identifier_nolower(identifier) ==
    [text |-> identifier, quoted |-> identifier \in reserved_keywords]

\* openwebui-migration.py: quote when the lower-cased name is reserved
get_pg_safe_identifier(identifier) ==
    [text |-> identifier, quoted |-> Lower(identifier) \in reserved_keywords]

\* simple-migration.py: f'"{name}"' if name.lower() in ['user','group','order']
simple_safe_column(name) ==
    [text |-> name, quoted |-> Lower(name) \in simple_reserved]

\* f'"{name}"': the name is always wrapped in double quotes
always_quoted(name) == [text |-> name, quoted |-> TRUE]

(* ----------------------------- source reads --------------------------- *)
\* The rows of a source table are numbered 1..total in storage order.
\* SELECT ... LIMIT limit OFFSET offset
SelectLimitOffset_nolimit(total, limit, offset) ==
    IF offset >= total THEN << >>
    ELSE [i \in 1..(total - offset) |-> offset + i]

SelectLimitOffset(total, limit, offset) ==
    LET last == IF offset + limit < total THEN offset + limit ELSE total
    IN  IF offset >= total THEN << >>
        ELSE [i \in 1..(last - offset) |-> offset + i]

\* SELECT ... FROM t (all rows)
SelectAll(total) == [i \in 1..total |-> i]

\* The values of source row r under a projection: the value at position i
\* is the one stored in column projection[i].
ReadRow(r, projection) ==
    [i \in DOMAIN projection |-> [row |-> r, col |-> projection[i]]]

(* ------------------------ generated statements ------------------------ *)
CreateStmt(tbl, cols) == [kind |-> "CREATE", table |-> tbl, cols |-> cols, vals |-> << >>]
TruncateStmt(tbl)     == [kind |-> "TRUNCATE", table |-> tbl, cols |-> << >>, vals |-> << >>]
DeleteStmt(tbl)       == [kind |-> "DELETE", table |-> tbl, cols |-> << >>, vals |-> << >>]
InsertStmt(tbl, cols, vals) == [kind |-> "INSERT", table |-> tbl, cols |-> cols, vals |-> vals]
CommitStmt            == [kind |-> "COMMIT", table |-> << >>, cols |-> << >>, vals |-> << >>]

(* --------------------- the target connection (psycopg2) --------------- *)
\* s = [db, pend, tx]: committed tables, effects of the open transaction,
\* transaction status ("idle", "open", "aborted").
RECURSIVE ApplyAll(_, _)
ApplyOp(db, o) ==
    CASE o.op = "create" ->
            IF db[o.t].exists THEN db
            ELSE [db EXCEPT ![o.t] = [exists |-> TRUE, cols |-> o.cols, rows |-> << >>]]
      [] o.op = "clear"  -> [db EXCEPT ![o.t].rows = << >>]
      [] o.op = "ins"    -> [db EXCEPT ![o.t].rows = Append(@, o.row)]

ApplyAll(db, ops) ==
    IF ops = << >> THEN db ELSE ApplyAll(ApplyOp(db, Head(ops)), Tail(ops))

\* what statements of the open transaction see
PgView(s) == ApplyAll(s.db, s.pend)

\* cursor.execute succeeded: the statement's effect joins the transaction
PgExecOk(s, ops) == [s EXCEPT !.tx = "open", !.pend = @ \o ops]

\* cursor.execute raised: the transaction is aborted until commit/rollback
PgExecFail(s) == [s EXCEPT !.tx = "aborted"]

\* connection.commit(): COMMIT of an aborted transaction is a rollback
PgCommit(s) ==
    [db   |-> IF s.tx = "open" THEN PgView(s) ELSE s.db,
     pend |-> << >>,
     tx   |-> "idle"]

\* connection.rollback(), and a commit() that raised
PgRollback(s) == [db |-> s.db, pend |-> << >>, tx |-> "idle"]

OpCreate(t, cols) == [op |-> "create", t |-> t, row |-> 0, cols |-> cols]
OpClear(t)        == [op |-> "clear", t |-> t, row |-> 0, cols |-> << >>]
OpIns(t, r)       == [op |-> "ins", t |-> t, row |-> r, cols |-> << >>]

Range(s) == {s[i] : i \in DOMAIN s}

\* rows of the sequence that the run inserted (0 marks a row that was there before)
NewRows(rows) == SelectSeq(rows, LAMBDA r : r > 0)

\* Does INSERT INTO t (cols) of source row r succeed in state s?
InsertSucceeds(s, t, cols, isBad) ==
    /\ s.tx # "aborted"
    /\ PgView(s)[t].exists
    /\ Range(cols) \subseteq Range(PgView(s)[t].cols)
    /\ ~isBad

\* migrate: the INSERTs sent since the last commit() call, after the
\* statements stmts have been sent
RECURSIVE SinceCommit(_, _)
SinceCommit(n, stmts) ==
    IF stmts = << >> THEN n
    ELSE SinceCommit(IF Head(stmts).kind = "COMMIT" THEN 0
                     ELSE IF Head(stmts).kind = "INSERT" THEN n + 1
                     ELSE n,
                     Tail(stmts))

(* ----------------------------- Python values -------------------------- *)
\* A value is [kind, n, s]: None, a bool (n is 0 or 1), an int n, a float
\* (s is its printed form, n its integer part), a str of characters s or a
\* bytes object of bytes s.  Raised stands for an exception leaving the call.
NoValue == [kind |-> "absent", n |-> 0, s |-> << >>]
VNone == [kind |-> "none", n |-> 0, s |-> << >>]
VBool(b) == [kind |-> "bool", n |-> IF b THEN 1 ELSE 0, s |-> << >>]
VInt(n) == [kind |-> "int", n |-> n, s |-> << >>]
VFloat(whole, printed) == [kind |-> "float", n |-> whole, s |-> printed]
VStr(s) == [kind |-> "str", n |-> 0, s |-> s]
VBytes(s) == [kind |-> "bytes", n |-> 0, s |-> s]
Raised == [kind |-> "raise", n |-> 0, s |-> << >>]

\* the character U+0000, the byte 0xFF (no valid UTF-8), the character
\* U+FFFD that decoding puts in its place, and the character U+00B2
NulChar == "\\x00"
InvalidByte == "\\xff"
ReplacementChar == "U+FFFD"
SuperscriptTwo == "U+00B2"

DigitChars == <<"0", "1", "2", "3", "4", "5", "6", "7", "8", "9">>

DigitValue(c) == CHOOSE d \in 0..9 : DigitChars[d + 1] = c

RECURSIVE NatToStr(_)
NatToStr(n) ==
    IF n < 10 THEN <<DigitChars[n + 1]>>
    ELSE NatToStr(n \div 10) \o <<DigitChars[(n % 10) + 1]>>

RECURSIVE ParseNat(_)
ParseNat(s) ==
    IF s = << >> THEN 0
    ELSE ParseNat(SubSeq(s, 1, Len(s) - 1)) * 10 + DigitValue(s[Len(s)])

\* how repr() prints one byte of a bytes object
ByteRepr(b) ==
    IF b = NulChar THEN <<"\\", "x", "0", "0">>
    ELSE IF b = InvalidByte THEN <<"\\", "x", "f", "f">>
    ELSE <<b>>

RECURSIVE BytesRepr(_)
BytesRepr(bs) == IF bs = << >> THEN << >> ELSE ByteRepr(Head(bs)) \o BytesRepr(Tail(bs))

\* str(value)
PyStr_repr(value) ==
    CASE value.kind = "none"  -> <<"N", "o", "n", "e">>
      [] value.kind = "bool"  -> IF value.n = 1 THEN <<"T", "r", "u", "e">>
                                 ELSE <<"F", "a", "l", "s", "e">>
      [] value.kind = "int"   -> IF value.n < 0 THEN <<"-">> \o NatToStr(0 - value.n)
                                 ELSE NatToStr(value.n)
      [] value.kind = "float" -> value.s
      [] value.kind = "str"   -> <<"'">> \o value.s \o <<"'">>
      [] value.kind = "bytes" -> <<"b", "'">> \o BytesRepr(value.s) \o <<"'">>

PyStr(value) ==
    CASE value.kind = "none"  -> <<"N", "o", "n", "e">>
      [] value.kind = "bool"  -> IF value.n = 1 THEN <<"T", "r", "u", "e">>
                                 ELSE <<"F", "a", "l", "s", "e">>
      [] value.kind = "int"   -> IF value.n < 0 THEN <<"-">> \o NatToStr(0 - value.n)
                                 ELSE NatToStr(value.n)
      [] value.kind = "float" -> value.s
      [] value.kind = "str"   -> value.s
      [] value.kind = "bytes" -> <<"b", "'">> \o BytesRepr(value.s) \o <<"'">>

\* str.isdigit(): not empty and every character has the Unicode property
\* Digit, which the superscript digits have too
IsDigit(s) ==
    /\ s # << >>
    /\ \A i \in DOMAIN s : s[i] \in Range(DigitChars) \cup {SuperscriptTwo}

\* the text is an optional minus sign and decimal digits
IsDecimalText(s) ==
    LET digits == IF s # << >> /\ s[1] = "-" THEN Tail(s) ELSE s
    IN  /\ digits # << >>
        /\ \A i \in DOMAIN digits : digits[i] \in Range(DigitChars)

\* int(value): ValueError for a text that is no decimal literal
PyInt(value) ==
    CASE value.kind \in {"int", "bool", "float"} -> VInt(value.n)
      [] value.kind = "str" ->
            IF ~IsDecimalText(value.s) THEN Raised
            ELSE IF value.s[1] = "-" THEN VInt(0 - ParseNat(Tail(value.s)))
            ELSE VInt(ParseNat(value.s))
      [] OTHER -> Raised

\* bool(value)
PyBool(value) ==
    CASE value.kind \in {"bool", "int"} -> value.n # 0
      [] value.kind = "float" -> value.s # <<"0", ".", "0">>
      [] value.kind \in {"str", "bytes"} -> value.s # << >>
      [] OTHER -> FALSE

\* isinstance(value, int): bool is a subclass of int
IsInstanceInt(value) == value.kind \in {"int", "bool"}

\* str.replace('\x00', '')
StripNul(s) == SelectSeq(s, LAMBDA c : c # NulChar)

\* bytes.decode('utf-8', errors='replace'): never raises
DecodeUtf8Replace(bs) ==
    [i \in DOMAIN bs |-> IF bs[i] = InvalidByte THEN ReplacementChar ELSE bs[i]]

(* ------------------------------- inputs ------------------------------- *)
\* rows of one table that the target rejects on their own account
MaxBad == 1

Programs == {"migrate", "transfer_data", "migrate_simple"}

TableNames == {Id_chat, Id_Order, Id_MigrateHistory, Id_alembic_version}

\* column lists a source table can have (PRAGMA table_info / information_schema)
SrcSchemas == { << >>, <<Id_id, Id_Group>>, <<Id_id, Id_Group, Id_extra>> }

\* transfer_data: column lists of a table of the source database
SourceColumnLists == { <<Id_id, Id_Group, Id_extra>>, <<Id_extra, Id_id>>, <<Id_extra>> }

\* column lists of a table that is already in the target, in ordinal order
TgtSchemas == { <<Id_Group, Id_id>> }

Tables == 1..NTables

AbsentTable == [exists |-> FALSE, cols |-> << >>, rows |-> << >>]

\* a target table before the run: absent, or present with old rows
TargetPrestates ==
    {AbsentTable} \cup
    { [exists |-> TRUE, cols |-> c, rows |-> [i \in 1..MaxOld |-> 0]] :
        c \in TgtSchemas }

(* ------------------------------- state -------------------------------- *)
VARIABLES
    prog,                 \* which script runs
    pc,                   \* position in the script
    exitCode,             \* process exit status, -1 while running
    conn,                 \* source/target connections and cursors
    integrity,            \* result of check_sqlite_integrity
    ti,                   \* index of the table being processed
    names,                \* names of the tables met so far
    schema,               \* source column list of the current table
    source_has,           \* transfer_data: the source holds the current table
    common_columns,       \* transfer_data: projection and insert column list
    pg,                   \* the target connection: [db, pend, tx]
    srcTx,                \* transfer_data: transaction status of the source connection
    total_rows,           \* COUNT(*) / len(rows) of the current table
    processed_rows,
    failed_rows,          \* len(failed_rows)
    raw_rows,             \* the batch (migrate) or the fetched rows (other scripts)
    row_idx,
    success_count,
    retry_count,
    reset_failed,         \* migrate: the reset (TRUNCATE) of the current table failed
    total_migrated_rows,
    total_failed_rows,
    status,               \* per table: pending/system/skipped/completed/error
    report,               \* what the last completion line reported
    issued,               \* statements the last step sent to the target
    faults,               \* environment faults so far
    bad,                  \* rows of the current table rejected on their own account
    left,                 \* what was true of the table that was left last
    row_failed,           \* some insert of the run has raised
    since_commit,         \* migrate: INSERTs sent since the last commit() call
    summary,              \* migrate: what the final summary reported
    interrupted,          \* migrate: KeyboardInterrupt was raised
    cv                    \* value coercion: input, target type, results

vars == << prog, pc, exitCode, conn, integrity, ti, names, schema, source_has,
           common_columns,
           pg, srcTx, total_rows, processed_rows, failed_rows, raw_rows, row_idx,
           success_count, retry_count, reset_failed, total_migrated_rows, total_failed_rows,
           status, report, issued, faults, bad, left, row_failed,
           since_commit, summary, interrupted, cv >>

\* everything but the coercion record
processVars == << prog, pc, exitCode, conn, integrity, ti, names, schema, source_has,
                  common_columns,
                  pg, srcTx, total_rows, processed_rows, failed_rows, raw_rows, row_idx,
                  success_count, retry_count, reset_failed, total_migrated_rows,
                  total_failed_rows, status, report, issued, faults, bad, left, row_failed,
                  since_commit, summary, interrupted >>

batchVars == << total_rows, processed_rows, failed_rows, raw_rows, row_idx,
                success_count, bad >>
tableVars == << schema, source_has, common_columns, retry_count, reset_failed, batchVars >>
tallyVars == << total_migrated_rows, total_failed_rows >>
runVars   == << prog, exitCode, conn, integrity >>

tname == names[ti]

NoReport == [migrated |-> 0, failed |-> 0, total |-> 0]

NoTableLeft == [valid |-> FALSE, source_has |-> FALSE, source_columns |-> << >>,
                bad |-> {}, reset_failed |-> FALSE]

NoSummary == [printed |-> FALSE, migrated |-> 0, failed |-> 0]

\* no value is being coerced
NoCoercion == [op |-> "none", stage |-> 0, target_type |-> "none",
               value |-> NoValue, result |-> NoValue, again |-> NoValue]

\* the state of a process before its first statement
InitState ==
    /\ pc = "start"
    /\ exitCode = -1
    /\ conn = [src |-> "none", srcCur |-> "none", tgt |-> "none", tgtCur |-> "none"]
    /\ integrity = "unchecked"
    /\ ti = 1
    /\ names = << >>
    /\ schema = << >>
    /\ source_has = FALSE
    /\ common_columns = << >>
    /\ pg = [db |-> [t \in Tables |-> AbsentTable], pend |-> << >>, tx |-> "idle"]
    /\ srcTx = "idle"
    /\ total_rows = 0
    /\ processed_rows = 0
    /\ failed_rows = 0
    /\ raw_rows = << >>
    /\ row_idx = 0
    /\ success_count = 0
    /\ retry_count = 0
    /\ reset_failed = FALSE
    /\ total_migrated_rows = 0
    /\ total_failed_rows = 0
    /\ status = [t \in Tables |-> "pending"]
    /\ report = NoReport
    /\ issued = << >>
    /\ faults = 0
    /\ bad = {}
    /\ left = NoTableLeft
    /\ row_failed = FALSE
    /\ since_commit = 0
    /\ summary = NoSummary
    /\ interrupted = FALSE

Init ==
    /\ prog \in Programs
    /\ InitState
    /\ cv = NoCoercion

(* ------------------------- shared building blocks --------------------- *)
CanFault == faults < MaxFaults

AllClosed(c) == [src    |-> IF c.src = "open" THEN "closed" ELSE c.src,
                 srcCur |-> IF c.srcCur = "open" THEN "closed" ELSE c.srcCur,
                 tgt    |-> IF c.tgt = "open" THEN "closed" ELSE c.tgt,
                 tgtCur |-> IF c.tgtCur = "open" THEN "closed" ELSE c.tgtCur]

\* the process ends with the given status; nothing else runs afterwards
Exit(code) == /\ pc' = "exited"
              /\ exitCode' = code

\* per-table variables as they are when a new table is picked up
ResetTableVars ==
    /\ schema' = << >>
    /\ source_has' = FALSE
    /\ common_columns' = << >>
    /\ total_rows' = 0
    /\ processed_rows' = 0
    /\ failed_rows' = 0
    /\ raw_rows' = << >>
    /\ row_idx' = 0
    /\ success_count' = 0
    /\ retry_count' = 0
    /\ reset_failed' = FALSE
    /\ bad' = {}

\* `continue` of the table loop with the given outcome for the current table;
\* the per-table locals are dead from here on (each is assigned again before
\* it is read), so they are put back to their initial values
NextTableWith(outcome) ==
    /\ status' = [status EXCEPT ![ti] = outcome]
    /\ ti' = ti + 1
    /\ pc' = "loop"
    /\ left' = [valid |-> TRUE, source_has |-> source_has, source_columns |-> schema,
                bad |-> bad, reset_failed |-> reset_failed]
    /\ ResetTableVars

\* the step stays inside the current table
SameTable == UNCHANGED << ti, status, left >>

HasPending(s, t) == \E i \in DOMAIN s.pend : s.pend[i].t = t

\* The model follows the contents of the table in progress and of every
\* table the open transaction has touched; the scripts never read another
\* table, so the contents of the others are dropped when a table is picked.
PickTable(s, t, pre) ==
    [s EXCEPT !.db = [u \in Tables |-> IF u = t THEN pre
                                       ELSE IF HasPending(s, u) THEN s.db[u]
                                       ELSE AbsentTable]]

(***************************************************************************)
(* openwebui-migration.py: migrate()                                       *)
(***************************************************************************)
\* check_sqlite_integrity(): the three PRAGMA results, then a probe query
check_sqlite_integrity(raised, result, quick_result, fk_result, probe_raises) ==
    IF raised THEN FALSE
    ELSE IF result # <<"ok">> THEN FALSE
    ELSE IF quick_result # <<"ok">> THEN FALSE
    ELSE IF fk_result # << >> THEN FALSE
    ELSE IF probe_raises THEN FALSE
    ELSE TRUE

PragmaResults == { <<"ok">>, <<"corrupt">> }
FkResults == { << >>, <<"violation">> }

\* line 150: `if not check_sqlite_integrity(): ... sys.exit(1)`
GateAllows_always(healthy) == TRUE

GateAllows(healthy) == healthy

\* lines 145-152: download if the file is missing, then the integrity gate
M_Integrity ==
    /\ prog = "migrate" /\ pc = "start"
    /\ \E have_file \in BOOLEAN, download_ok \in BOOLEAN, raised \in BOOLEAN,
          result \in PragmaResults, quick_result \in PragmaResults,
          fk_result \in FkResults, probe_raises \in BOOLEAN :
         IF ~have_file /\ ~download_ok
         THEN /\ Exit(1)
              /\ UNCHANGED integrity
         ELSE LET healthy == check_sqlite_integrity(raised, result, quick_result,
                                                    fk_result, probe_raises)
              IN  /\ integrity' = IF healthy THEN "healthy" ELSE "bad"
                  /\ IF GateAllows(healthy)
                     THEN /\ pc' = "connect"
                          /\ UNCHANGED exitCode
                     ELSE Exit(1)
    /\ issued' = << >>
    /\ UNCHANGED << prog, conn, ti, names, pg, srcTx, status, report, faults >>
    /\ UNCHANGED << tableVars, tallyVars >>
    /\ UNCHANGED row_failed
    /\ UNCHANGED left
    /\ since_commit' = SinceCommit(since_commit, issued')
    /\ UNCHANGED << summary, interrupted, cv >>

\* lines 158-166: the four acquisitions, outside any try block; an exception
\* here leaves migrate() and reaches the handler of __main__ (sys.exit(1))
OpenUpTo(c, n) ==
    [src    |-> IF n >= 1 THEN "open" ELSE c.src,
     srcCur |-> IF n >= 2 THEN "open" ELSE c.srcCur,
     tgt    |-> IF n >= 3 THEN "open" ELSE c.tgt,
     tgtCur |-> IF n >= 4 THEN "open" ELSE c.tgtCur]

M_Connect ==
    /\ prog = "migrate" /\ pc = "connect"
    /\ \/ /\ conn' = OpenUpTo(conn, 4)
          /\ pc' = "list"
          /\ UNCHANGED << exitCode, faults >>
       \/ /\ CanFault
          \* sqlite3.connect raises (0), a PRAGMA raises (2), psycopg2.connect raises (2)
          /\ \E n \in {0, 2} : conn' = OpenUpTo(conn, n)
          /\ faults' = faults + 1
          /\ Exit(1)
    /\ issued' = << >>
    /\ UNCHANGED << prog, integrity, ti, names, pg, srcTx, status, report >>
    /\ UNCHANGED << tableVars, tallyVars >>
    /\ UNCHANGED row_failed
    /\ UNCHANGED left
    /\ since_commit' = SinceCommit(since_commit, issued')
    /\ UNCHANGED << summary, interrupted, cv >>

\* lines 173-176; a failure is caught at 365: rollback, return False, finally
M_ListTables ==
    /\ prog = "migrate" /\ pc = "list"
    /\ \/ /\ pc' = "loop"
          /\ UNCHANGED << exitCode, conn, pg, faults >>
       \/ /\ CanFault
          /\ faults' = faults + 1
          /\ pg' = PgRollback(pg)
          /\ conn' = AllClosed(conn)
          /\ Exit(1)
    /\ issued' = << >>
    /\ UNCHANGED << prog, integrity, ti, names, srcTx, status, report >>
    /\ UNCHANGED << tableVars, tallyVars >>
    /\ UNCHANGED row_failed
    /\ UNCHANGED left
    /\ since_commit' = SinceCommit(since_commit, issued')
    /\ UNCHANGED << summary, interrupted, cv >>

\* lines 178-186: the next table of the list; system tables are skipped
IsSystemTable(table_name) == Lower(table_name) \in system_tables

M_NextTable ==
    /\ prog = "migrate" /\ pc = "loop" /\ ti <= NTables
    /\ \E name \in TableNames \ Range(names), pre \in TargetPrestates :
         /\ names' = Append(names, name)
         /\ IF IsSystemTable(name)
            THEN /\ status' = [status EXCEPT ![ti] = "system"]
                 /\ ti' = ti + 1
                 /\ pg' = PickTable(pg, ti, AbsentTable)
                 /\ UNCHANGED pc
            ELSE /\ pg' = PickTable(pg, ti, pre)
                 /\ pc' = "schema"
                 /\ UNCHANGED << ti, status >>
    /\ UNCHANGED tableVars
    /\ report' = NoReport
    /\ issued' = << >>
    /\ UNCHANGED << runVars, srcTx, faults, tallyVars >>
    /\ UNCHANGED row_failed
    /\ left' = NoTableLeft
    /\ since_commit' = SinceCommit(since_commit, issued')
    /\ UNCHANGED << summary, interrupted, cv >>

\* lines 193-207: PRAGMA table_info with up to MAX_RETRIES attempts
M_Schema ==
    /\ prog = "migrate" /\ pc = "schema"
    /\ \/ \* the read raises sqlite3.DatabaseError
          IF retry_count + 1 = MAX_RETRIES
          THEN NextTableWith("error")
          ELSE /\ retry_count' = retry_count + 1
               /\ SameTable
               /\ UNCHANGED << pc, schema, reset_failed, source_has, common_columns, batchVars >>
       \/ \E s \in SrcSchemas :
            IF s = << >>
            THEN NextTableWith("skipped")
            ELSE /\ schema' = s
                 /\ pc' = "ensure"
                 /\ SameTable
                 /\ UNCHANGED << retry_count, reset_failed, source_has, common_columns, batchVars >>
    /\ issued' = << >>
    /\ UNCHANGED << runVars, names, pg, srcTx, report, faults, tallyVars >>
    /\ UNCHANGED row_failed
    /\ since_commit' = SinceCommit(since_commit, issued')
    /\ UNCHANGED << summary, interrupted, cv >>

pg_safe_table_name == get_pg_safe_identifier(tname)

\* lines 221-231: the CREATE TABLE statement built from the source schema
MigrateCreateQuery ==
    CreateStmt(pg_safe_table_name, [i \in DOMAIN schema |-> get_pg_safe_identifier(schema[i])])

\* lines 210-237: existence probe, CREATE TABLE and commit when absent;
\* psycopg2.Error is caught and logged
M_EnsureTable ==
    /\ prog = "migrate" /\ pc = "ensure"
    /\ IF pg.tx = "aborted"
       THEN \* the probe raises InFailedSqlTransaction
            /\ issued' = << >>
            /\ UNCHANGED << pg, faults >>
       ELSE LET s1 == PgExecOk(pg, << >>)
                table_exists == PgView(pg)[ti].exists
            IN  IF table_exists
                THEN /\ pg' = s1
                     /\ issued' = << >>
                     /\ UNCHANGED faults
                ELSE \/ /\ pg' = PgCommit(PgExecOk(s1, <<OpCreate(ti, schema)>>))
                        /\ issued' = <<MigrateCreateQuery, CommitStmt>>
                        /\ UNCHANGED faults
                     \/ /\ CanFault
                        /\ faults' = faults + 1
                        /\ \/ /\ pg' = PgExecFail(s1)
                              /\ issued' = <<MigrateCreateQuery>>
                           \/ /\ pg' = PgRollback(PgExecOk(s1, <<OpCreate(ti, schema)>>))
                              /\ issued' = <<MigrateCreateQuery, CommitStmt>>
    /\ pc' = "reset"
    /\ SameTable
    /\ UNCHANGED << runVars, names, srcTx, report, tableVars, tallyVars >>
    /\ UNCHANGED row_failed
    /\ UNCHANGED left
    /\ since_commit' = SinceCommit(since_commit, issued')
    /\ UNCHANGED << summary, interrupted, cv >>

\* lines 240-257: read the target columns (the result is not used), then
\* TRUNCATE ... CASCADE and commit; psycopg2.Error is caught and logged
M_Reset ==
    /\ prog = "migrate" /\ pc = "reset"
    /\ LET s1 == IF pg.tx = "aborted" THEN pg ELSE PgExecOk(pg, << >>)
           truncate_ok == s1.tx # "aborted" /\ PgView(s1)[ti].exists
       IN  \/ /\ truncate_ok
              /\ pg' = PgCommit(PgExecOk(s1, <<OpClear(ti)>>))
              /\ issued' = <<TruncateStmt(pg_safe_table_name), CommitStmt>>
              /\ reset_failed' = FALSE
              /\ UNCHANGED faults
           \/ /\ ~truncate_ok
              /\ pg' = PgExecFail(s1)
              /\ issued' = <<TruncateStmt(pg_safe_table_name)>>
              /\ reset_failed' = TRUE
              /\ UNCHANGED faults
           \/ /\ truncate_ok /\ CanFault
              /\ faults' = faults + 1
              /\ reset_failed' = TRUE
              /\ \/ /\ pg' = PgExecFail(s1)
                    /\ issued' = <<TruncateStmt(pg_safe_table_name)>>
                 \/ /\ pg' = PgRollback(PgExecOk(s1, <<OpClear(ti)>>))
                    /\ issued' = <<TruncateStmt(pg_safe_table_name), CommitStmt>>
    /\ pc' = "count"
    /\ SameTable
    /\ UNCHANGED << runVars, names, srcTx, report, tallyVars >>
    /\ UNCHANGED << schema, source_has, common_columns, retry_count, batchVars >>
    /\ UNCHANGED row_failed
    /\ UNCHANGED left
    /\ since_commit' = SinceCommit(since_commit, issued')
    /\ UNCHANGED << summary, interrupted, cv >>

\* the loop test of line 274
AfterBatch_once(processed) == "complete"

AfterBatch(processed) == IF processed < total_rows THEN "batch" ELSE "complete"

\* lines 262-271: COUNT(*); an empty table is skipped
M_Count ==
    /\ prog = "migrate" /\ pc = "count"
    /\ \/ \E n \in 0..MaxRows :
            /\ IF n = 0
               THEN NextTableWith("skipped")
               ELSE /\ total_rows' = n
                    /\ processed_rows' = 0
                    /\ failed_rows' = 0
                    /\ pc' = "batch"
                    /\ SameTable
                    /\ UNCHANGED << schema, source_has, common_columns, retry_count, reset_failed, raw_rows,
                                    row_idx, success_count, bad >>
            /\ UNCHANGED faults
       \/ \* the query raises: caught at the table boundary (line 347)
          /\ CanFault
          /\ faults' = faults + 1
          /\ NextTableWith("error")
    /\ issued' = << >>
    /\ UNCHANGED << runVars, names, pg, srcTx, report, tallyVars >>
    /\ UNCHANGED row_failed
    /\ since_commit' = SinceCommit(since_commit, issued')
    /\ UNCHANGED << summary, interrupted, cv >>

\* lines 274-283 and 329-332: read one batch; a sqlite3.DatabaseError skips the window
SkipWindow(processed) == processed + BATCH_SIZE

M_BatchRead ==
    /\ prog = "migrate" /\ pc = "batch"
    /\ \/ LET rows == SelectLimitOffset(total_rows, BATCH_SIZE, processed_rows)
          IN  /\ raw_rows' = rows
              /\ IF rows = << >>
                 THEN pc' = "complete"
                 ELSE pc' = "row"
              /\ row_idx' = 1
              /\ UNCHANGED << processed_rows, faults >>
       \/ /\ CanFault
          /\ faults' = faults + 1
          /\ processed_rows' = SkipWindow(processed_rows)
          /\ pc' = AfterBatch(SkipWindow(processed_rows))
          /\ UNCHANGED << raw_rows, row_idx >>
    /\ issued' = << >>
    /\ SameTable
    /\ UNCHANGED << runVars, names, pg, srcTx, report, tallyVars >>
    /\ UNCHANGED << schema, source_has, common_columns, total_rows, failed_rows, success_count,
                    retry_count, reset_failed, bad >>
    /\ UNCHANGED row_failed
    /\ UNCHANGED left
    /\ since_commit' = SinceCommit(since_commit, issued')
    /\ UNCHANGED << summary, interrupted, cv >>

\* line 304: the insert column list, from the source schema
MigrateInsertColumns_reversed ==
    [i \in DOMAIN schema |-> get_pg_safe_identifier(schema[Len(schema) + 1 - i])]

MigrateInsertColumns == [i \in DOMAIN schema |-> get_pg_safe_identifier(schema[i])]

\* lines 289-301: SELECT * yields the values in the source column order,
\* and cleaning a value keeps its position
MigrateCleanedRow(r) == ReadRow(r, schema)

\* lines 286-320: one row of the batch; any exception is recorded and the
\* loop goes on with the next row (no rollback)
M_Row ==
    /\ prog = "migrate" /\ pc = "row"
    /\ LET r == raw_rows[row_idx]
           insertable == InsertSucceeds(pg, ti, schema, FALSE)
       IN  /\ \E isBad \in BOOLEAN :
                /\ isBad => (insertable /\ Cardinality(bad) < MaxBad)
                /\ bad' = IF isBad THEN bad \cup {r} ELSE bad
                /\ IF insertable /\ ~isBad
                   THEN /\ pg' = PgExecOk(pg, <<OpIns(ti, r)>>)
                        /\ UNCHANGED << failed_rows, row_failed >>
                   ELSE /\ pg' = PgExecFail(pg)
                        /\ failed_rows' = failed_rows + 1
                        /\ row_failed' = TRUE
           /\ issued' = <<InsertStmt(pg_safe_table_name, MigrateInsertColumns,
                                     MigrateCleanedRow(r))>>
    /\ IF row_idx < Len(raw_rows)
       THEN /\ row_idx' = row_idx + 1
            /\ UNCHANGED pc
       ELSE /\ pc' = "commit"
            /\ UNCHANGED row_idx
    /\ SameTable
    /\ UNCHANGED << runVars, names, srcTx, report, faults, tallyVars >>
    /\ UNCHANGED << schema, source_has, common_columns, total_rows, processed_rows, raw_rows,
                    success_count, retry_count, reset_failed >>
    /\ UNCHANGED left
    /\ since_commit' = SinceCommit(since_commit, issued')
    /\ UNCHANGED << summary, interrupted, cv >>

\* lines 322-327: count the batch as processed, commit; a failing commit is
\* no sqlite3.DatabaseError and reaches the table boundary (line 347)
M_BatchCommit ==
    /\ prog = "migrate" /\ pc = "commit"
    /\ \/ /\ pg' = PgCommit(pg)
          /\ processed_rows' = processed_rows + Len(raw_rows)
          /\ pc' = AfterBatch(processed_rows + Len(raw_rows))
          /\ SameTable
          /\ UNCHANGED faults
          /\ UNCHANGED << schema, source_has, common_columns, total_rows, failed_rows, raw_rows,
                          row_idx, success_count, retry_count, reset_failed, bad >>
       \/ /\ CanFault
          /\ faults' = faults + 1
          /\ pg' = PgRollback(pg)
          /\ NextTableWith("error")
    /\ issued' = <<CommitStmt>>
    /\ UNCHANGED << runVars, names, srcTx, report, tallyVars >>
    /\ UNCHANGED row_failed
    /\ since_commit' = SinceCommit(since_commit, issued')
    /\ UNCHANGED << summary, interrupted, cv >>

\* line 334
SuccessfulRows_swapped(processed, failed) == failed - processed

SuccessfulRows(processed, failed) == processed - failed

\* lines 334-345: the table's totals join the run tally
M_Complete ==
    /\ prog = "migrate" /\ pc = "complete"
    /\ LET successful_rows == SuccessfulRows(processed_rows, failed_rows)
       IN  /\ total_migrated_rows' = total_migrated_rows + successful_rows
           /\ total_failed_rows' = total_failed_rows + failed_rows
           /\ report' = [migrated |-> successful_rows,
                         failed   |-> failed_rows,
                         total    |-> total_rows]
    /\ NextTableWith("completed")
    /\ issued' = << >>
    /\ UNCHANGED << runVars, names, pg, srcTx, faults >>
    /\ UNCHANGED row_failed
    /\ since_commit' = SinceCommit(since_commit, issued')
    /\ UNCHANGED << summary, interrupted, cv >>

\* lines 363 and 391-399: the run is a success when no failed row was tallied
MigrateExitCode(failed_total) == IF failed_total = 0 THEN 0 ELSE 1

\* lines 352-382: summary, return, finally: close everything
M_Summary ==
    /\ prog = "migrate" /\ pc = "loop" /\ ti > NTables
    /\ conn' = AllClosed(conn)
    /\ Exit(MigrateExitCode(total_failed_rows))
    /\ issued' = << >>
    /\ UNCHANGED << prog, integrity, ti, names, pg, srcTx, status, report, faults >>
    /\ UNCHANGED << tableVars, tallyVars >>
    /\ UNCHANGED row_failed
    /\ UNCHANGED left
    /\ since_commit' = SinceCommit(since_commit, issued')
    /\ summary' = [printed |-> TRUE, migrated |-> total_migrated_rows,
                   failed |-> total_failed_rows]
    /\ UNCHANGED << interrupted, cv >>

\* the statements of migrate() that run inside the try of line 171
InsideTry == pc \notin {"start", "connect", "exited"}

\* KeyboardInterrupt is raised while migrate() runs.  No handler of migrate
\* catches it (they name Exception or a subclass); inside the try the
\* finally of lines 371-382 closes the connections, before it nothing is
\* closed; __main__ catches it at line 400 and calls sys.exit(1).
M_Interrupt ==
    /\ prog = "migrate" /\ pc # "exited"
    /\ interrupted' = TRUE
    /\ IF InsideTry
       THEN /\ conn' = AllClosed(conn)
            /\ pg' = PgRollback(pg)
       ELSE /\ IF pc = "connect"
               THEN \E n \in 0..4 : conn' = OpenUpTo(conn, n)
               ELSE UNCHANGED conn
            /\ UNCHANGED pg
    /\ Exit(1)
    /\ issued' = << >>
    /\ UNCHANGED << prog, integrity, ti, names, srcTx, status, report, faults >>
    /\ UNCHANGED << tableVars, tallyVars >>
    /\ UNCHANGED << row_failed, left, since_commit, summary, cv >>

MigrateNext ==
    \/ M_Integrity \/ M_Connect \/ M_ListTables \/ M_NextTable \/ M_Schema
    \/ M_EnsureTable \/ M_Reset \/ M_Count \/ M_BatchRead \/ M_Row
    \/ M_BatchCommit \/ M_Complete \/ M_Summary \/ M_Interrupt

(***************************************************************************)
(* improved-data-transfer.py: transfer_data()                              *)
(***************************************************************************)
\* lines 50-54: source connection, target connection, the two cursors
T_OpenUpTo(c, n) ==
    [src    |-> IF n >= 1 THEN "open" ELSE c.src,
     tgt    |-> IF n >= 2 THEN "open" ELSE c.tgt,
     srcCur |-> IF n >= 3 THEN "open" ELSE c.srcCur,
     tgtCur |-> IF n >= 4 THEN "open" ELSE c.tgtCur]

\* an exception here is not caught anywhere: the interpreter exits with 1
T_Connect ==
    /\ prog = "transfer_data" /\ pc = "start"
    /\ \/ /\ conn' = T_OpenUpTo(conn, 4)
          /\ pc' = "list"
          /\ UNCHANGED << exitCode, faults >>
       \/ /\ CanFault
          /\ faults' = faults + 1
          \* the first connect raises (0), the second connect raises (1)
          /\ \E n \in {0, 1} : conn' = T_OpenUpTo(conn, n)
          /\ Exit(1)
    /\ issued' = << >>
    /\ UNCHANGED << prog, integrity, ti, names, pg, srcTx, status, report >>
    /\ UNCHANGED << tableVars, tallyVars >>
    /\ UNCHANGED row_failed
    /\ UNCHANGED left
    /\ UNCHANGED << since_commit, summary, interrupted, cv >>

\* line 164: sys.exit(0 if success else 1)
TransferExitCode(success) == IF success THEN 0 ELSE 1

\* lines 58-66; a failure is caught at 153: return False, finally
T_ListTables ==
    /\ prog = "transfer_data" /\ pc = "list"
    /\ \/ /\ pg' = PgExecOk(pg, << >>)
          /\ pc' = "loop"
          /\ UNCHANGED << exitCode, conn, faults >>
       \/ /\ CanFault
          /\ faults' = faults + 1
          /\ pg' = PgExecFail(pg)
          /\ conn' = AllClosed(conn)
          /\ Exit(TransferExitCode(FALSE))
    /\ issued' = << >>
    /\ UNCHANGED << prog, integrity, ti, names, srcTx, status, report >>
    /\ UNCHANGED << tableVars, tallyVars >>
    /\ UNCHANGED row_failed
    /\ UNCHANGED left
    /\ UNCHANGED << since_commit, summary, interrupted, cv >>

\* line 63: table_name NOT IN ('alembic_version', 'migratehistory'), compared
\* by the database as written
TransferListed(table_name) == table_name \notin sql_excluded_tables

\* line 68: the next table of the target catalog
T_NextTable ==
    /\ prog = "transfer_data" /\ pc = "loop" /\ ti <= NTables
    /\ \E name \in TableNames \ Range(names),
          pre \in TargetPrestates \ {AbsentTable}, has \in BOOLEAN :
         /\ TransferListed(name)
         /\ names' = Append(names, name)
         /\ pg' = PickTable(pg, ti, pre)
         /\ source_has' = has
    /\ pc' = "exists"
    /\ UNCHANGED << ti, status >>
    /\ report' = NoReport
    /\ issued' = << >>
    /\ UNCHANGED << runVars, srcTx, faults, tallyVars >>
    /\ UNCHANGED << schema, common_columns, retry_count, reset_failed, batchVars >>
    /\ UNCHANGED row_failed
    /\ left' = NoTableLeft
    /\ UNCHANGED << since_commit, summary, interrupted, cv >>

\* lines 145-148: the handler at the table boundary
T_TableError ==
    /\ pg' = PgRollback(pg)
    /\ NextTableWith("error")

\* line 74: table_exists = source_cursor.fetchone()[0]
TableExistsInSource_always(has) == TRUE

TableExistsInSource(has) == has

\* lines 73-78: does the source hold the table?
T_Exists ==
    /\ prog = "transfer_data" /\ pc = "exists"
    /\ \/ /\ srcTx # "aborted"
          /\ srcTx' = "open"
          /\ IF TableExistsInSource(source_has)
             THEN /\ pc' = "schemas"
                  /\ SameTable
                  /\ UNCHANGED tableVars
             ELSE NextTableWith("skipped")
          /\ UNCHANGED << pg, faults >>
       \/ \* the query raises; the source transaction stays aborted
          /\ srcTx = "aborted" \/ CanFault
          /\ faults' = IF srcTx = "aborted" THEN faults ELSE faults + 1
          /\ srcTx' = "aborted"
          /\ T_TableError
    /\ issued' = << >>
    /\ UNCHANGED << runVars, names, report, tallyVars >>
    /\ UNCHANGED row_failed
    /\ UNCHANGED << since_commit, summary, interrupted, cv >>

\* line 101: the target columns, in ordinal order, that the source has too
CommonColumns(target_columns, source_columns) ==
    SelectSeq(target_columns, LAMBDA col : col \in Range(source_columns))

\* lines 81-105: both column lists and their intersection
T_Schemas ==
    /\ prog = "transfer_data" /\ pc = "schemas"
    /\ IF pg.tx = "aborted" \/ srcTx = "aborted"
       THEN /\ T_TableError
            /\ UNCHANGED srcTx
       ELSE \E source_columns \in SourceColumnLists :
              LET target_schema == PgView(pg)[ti].cols
                  common == CommonColumns(target_schema, source_columns)
              IN  /\ srcTx' = "open"
                  /\ pg' = PgExecOk(pg, << >>)
                  /\ IF common = << >>
                     THEN NextTableWith("skipped")
                     ELSE /\ schema' = source_columns
                          /\ common_columns' = common
                          /\ pc' = "clear"
                          /\ SameTable
                          /\ UNCHANGED << source_has, retry_count, reset_failed, batchVars >>
    /\ issued' = << >>
    /\ UNCHANGED << runVars, names, report, faults, tallyVars >>
    /\ UNCHANGED row_failed
    /\ UNCHANGED << since_commit, summary, interrupted, cv >>

\* lines 108-109: DELETE FROM "table" and commit
T_Clear ==
    /\ prog = "transfer_data" /\ pc = "clear"
    /\ LET delete_ok == pg.tx # "aborted" /\ PgView(pg)[ti].exists
       IN  \/ /\ delete_ok
              /\ pg' = PgCommit(PgExecOk(pg, <<OpClear(ti)>>))
              /\ issued' = <<DeleteStmt(always_quoted(tname)), CommitStmt>>
              /\ pc' = "select"
              /\ SameTable
              /\ UNCHANGED << faults, tableVars >>
           \/ /\ ~delete_ok \/ CanFault
              /\ faults' = IF delete_ok THEN faults + 1 ELSE faults
              /\ issued' = <<DeleteStmt(always_quoted(tname))>>
              /\ T_TableError
    /\ UNCHANGED << runVars, names, srcTx, report, tallyVars >>
    /\ UNCHANGED row_failed
    /\ UNCHANGED << since_commit, summary, interrupted, cv >>

\* lines 112-118: read every row of the common columns
T_Select ==
    /\ prog = "transfer_data" /\ pc = "select"
    /\ \/ /\ srcTx # "aborted"
          /\ \E n \in 0..MaxRows :
               IF n = 0
               THEN /\ NextTableWith("skipped")
                    /\ UNCHANGED pg
               ELSE /\ raw_rows' = SelectAll(n)
                    /\ total_rows' = n
                    /\ success_count' = 0
                    /\ row_idx' = 1
                    /\ pc' = "row"
                    /\ SameTable
                    /\ UNCHANGED pg
                    /\ UNCHANGED << schema, source_has, common_columns, retry_count, reset_failed,
                                    processed_rows, failed_rows, bad >>
          /\ srcTx' = "open"
          /\ UNCHANGED faults
       \/ /\ srcTx = "aborted" \/ CanFault
          /\ faults' = IF srcTx = "aborted" THEN faults ELSE faults + 1
          /\ srcTx' = "aborted"
          /\ T_TableError
    /\ issued' = << >>
    /\ UNCHANGED << runVars, names, report, tallyVars >>
    /\ UNCHANGED row_failed
    /\ UNCHANGED << since_commit, summary, interrupted, cv >>

\* line 112: the read projection
TransferProjection == common_columns

\* line 122: the insert column list
TransferInsertColumns == [i \in DOMAIN common_columns |-> always_quoted(common_columns[i])]

\* lines 128-132: zip(common_columns, row): value i is converted for column i
TransferConvertedRow(r) == ReadRow(r, TransferProjection)

\* lines 137-140: what the row handler does to the target connection
RowFailure(s) == PgRollback(PgExecFail(s))

\* lines 125-140: one row; on any exception roll the transaction back, go on
T_Row ==
    /\ prog = "transfer_data" /\ pc = "row"
    /\ LET r == raw_rows[row_idx]
           insertable == InsertSucceeds(pg, ti, common_columns, FALSE)
       IN  /\ \E isBad \in BOOLEAN :
                /\ isBad => (insertable /\ Cardinality(bad) < MaxBad)
                /\ bad' = IF isBad THEN bad \cup {r} ELSE bad
                /\ IF insertable /\ ~isBad
                   THEN /\ pg' = PgExecOk(pg, <<OpIns(ti, r)>>)
                        /\ success_count' = success_count + 1
                        /\ UNCHANGED row_failed
                   ELSE /\ pg' = RowFailure(pg)
                        /\ row_failed' = TRUE
                        /\ UNCHANGED success_count
           /\ issued' = <<InsertStmt(always_quoted(tname), TransferInsertColumns,
                                     TransferConvertedRow(r))>>
    /\ IF row_idx < Len(raw_rows)
       THEN /\ row_idx' = row_idx + 1
            /\ UNCHANGED pc
       ELSE /\ pc' = "commit"
            /\ UNCHANGED row_idx
    /\ SameTable
    /\ UNCHANGED << runVars, names, srcTx, report, faults, tallyVars >>
    /\ UNCHANGED << schema, source_has, common_columns, total_rows, processed_rows,
                    failed_rows, raw_rows, retry_count, reset_failed >>
    /\ UNCHANGED left
    /\ UNCHANGED << since_commit, summary, interrupted, cv >>

\* lines 142-143: commit, then "Transferred success_count/len(rows)"
T_Commit ==
    /\ prog = "transfer_data" /\ pc = "commit"
    /\ \/ /\ pg' = PgCommit(pg)
          /\ report' = [migrated |-> success_count,
                        failed   |-> total_rows - success_count,
                        total    |-> total_rows]
          /\ NextTableWith("completed")
          /\ UNCHANGED faults
       \/ /\ CanFault
          /\ faults' = faults + 1
          /\ T_TableError
          /\ UNCHANGED report
    /\ issued' = <<CommitStmt>>
    /\ UNCHANGED << runVars, names, srcTx, tallyVars >>
    /\ UNCHANGED row_failed
    /\ UNCHANGED << since_commit, summary, interrupted, cv >>

\* lines 150-160 and 163-164: return True, finally: close everything
T_Done ==
    /\ prog = "transfer_data" /\ pc = "loop" /\ ti > NTables
    /\ conn' = AllClosed(conn)
    /\ Exit(TransferExitCode(TRUE))
    /\ issued' = << >>
    /\ UNCHANGED << prog, integrity, ti, names, pg, srcTx, status, report, faults >>
    /\ UNCHANGED << tableVars, tallyVars >>
    /\ UNCHANGED row_failed
    /\ UNCHANGED left
    /\ UNCHANGED << since_commit, summary, interrupted, cv >>

TransferNext ==
    \/ T_Connect \/ T_ListTables \/ T_NextTable \/ T_Exists \/ T_Schemas
    \/ T_Clear \/ T_Select \/ T_Row \/ T_Commit \/ T_Done

(***************************************************************************)
(* simple-migration.py: migrate_simple()                                   *)
(***************************************************************************)
\* lines 25-29: the four acquisitions, outside the try block
S_Connect ==
    /\ prog = "migrate_simple" /\ pc = "start"
    /\ \/ /\ conn' = OpenUpTo(conn, 4)
          /\ pc' = "list"
          /\ UNCHANGED << exitCode, faults >>
       \/ /\ CanFault
          /\ faults' = faults + 1
          \* sqlite3.connect raises (0), psycopg2.connect raises (2)
          /\ \E n \in {0, 2} : conn' = OpenUpTo(conn, n)
          /\ Exit(1)
    /\ issued' = << >>
    /\ UNCHANGED << prog, integrity, ti, names, pg, srcTx, status, report >>
    /\ UNCHANGED << tableVars, tallyVars >>
    /\ UNCHANGED row_failed
    /\ UNCHANGED left
    /\ UNCHANGED << since_commit, summary, interrupted, cv >>

\* line 123: sys.exit(0 if success else 1)
SimpleExitCode(success) == IF success THEN 0 ELSE 1

\* lines 112-119: the handler of the whole run: return False, finally
S_RunError ==
    /\ conn' = AllClosed(conn)
    /\ Exit(SimpleExitCode(FALSE))

\* lines 33-36
S_ListTables ==
    /\ prog = "migrate_simple" /\ pc = "list"
    /\ \/ /\ pc' = "loop"
          /\ UNCHANGED << exitCode, conn, faults >>
       \/ /\ CanFault
          /\ faults' = faults + 1
          /\ S_RunError
    /\ issued' = << >>
    /\ UNCHANGED << prog, integrity, ti, names, pg, srcTx, status, report >>
    /\ UNCHANGED << tableVars, tallyVars >>
    /\ UNCHANGED row_failed
    /\ UNCHANGED left
    /\ UNCHANGED << since_commit, summary, interrupted, cv >>

\* lines 38-43
S_NextTable ==
    /\ prog = "migrate_simple" /\ pc = "loop" /\ ti <= NTables
    /\ \E name \in TableNames \ Range(names), pre \in TargetPrestates :
         /\ names' = Append(names, name)
         /\ IF IsSystemTable(name)
            THEN /\ status' = [status EXCEPT ![ti] = "system"]
                 /\ ti' = ti + 1
                 /\ pg' = PickTable(pg, ti, AbsentTable)
                 /\ UNCHANGED pc
            ELSE /\ pg' = PickTable(pg, ti, pre)
                 /\ pc' = "schema"
                 /\ UNCHANGED << ti, status >>
    /\ UNCHANGED tableVars
    /\ report' = NoReport
    /\ issued' = << >>
    /\ UNCHANGED << runVars, srcTx, faults, tallyVars >>
    /\ UNCHANGED row_failed
    /\ left' = NoTableLeft
    /\ UNCHANGED << since_commit, summary, interrupted, cv >>

\* lines 46-50: PRAGMA table_info, outside every per-table try block: an
\* exception here is caught by the handler of the whole run (line 112)
S_Schema ==
    /\ prog = "migrate_simple" /\ pc = "schema"
    /\ \/ /\ \E s \in SrcSchemas :
               IF s = << >>
               THEN NextTableWith("skipped")
               ELSE /\ schema' = s
                    /\ pc' = "create"
                    /\ SameTable
                    /\ UNCHANGED << source_has, common_columns, retry_count, reset_failed, batchVars >>
          /\ UNCHANGED << exitCode, conn, faults >>
       \/ /\ CanFault
          /\ faults' = faults + 1
          /\ S_RunError
          /\ SameTable
          /\ UNCHANGED tableVars
    /\ issued' = << >>
    /\ UNCHANGED << prog, integrity, names, pg, srcTx, report, tallyVars >>
    /\ UNCHANGED row_failed
    /\ UNCHANGED << since_commit, summary, interrupted, cv >>

\* lines 53-60: CREATE TABLE IF NOT EXISTS "table" (columns)
SimpleCreateQuery ==
    CreateStmt(always_quoted(tname), [i \in DOMAIN schema |-> simple_safe_column(schema[i])])

\* lines 59-65: create and commit; any exception is caught and logged
S_Create ==
    /\ prog = "migrate_simple" /\ pc = "create"
    /\ \/ /\ pg.tx # "aborted"
          /\ pg' = PgCommit(PgExecOk(pg, <<OpCreate(ti, schema)>>))
          /\ issued' = <<SimpleCreateQuery, CommitStmt>>
          /\ UNCHANGED faults
       \/ /\ pg.tx = "aborted"
          /\ pg' = PgExecFail(pg)
          /\ issued' = <<SimpleCreateQuery>>
          /\ UNCHANGED faults
       \/ /\ pg.tx # "aborted" /\ CanFault
          /\ faults' = faults + 1
          /\ \/ /\ pg' = PgExecFail(pg)
                /\ issued' = <<SimpleCreateQuery>>
             \/ /\ pg' = PgRollback(PgExecOk(pg, <<OpCreate(ti, schema)>>))
                /\ issued' = <<SimpleCreateQuery, CommitStmt>>
    /\ pc' = "delete"
    /\ SameTable
    /\ UNCHANGED << runVars, names, srcTx, report, tableVars, tallyVars >>
    /\ UNCHANGED row_failed
    /\ UNCHANGED left
    /\ UNCHANGED << since_commit, summary, interrupted, cv >>

\* line 70: DELETE FROM "table", not committed here; an exception is caught
\* at line 105 and the loop continues without a rollback
S_Delete ==
    /\ prog = "migrate_simple" /\ pc = "delete"
    /\ LET delete_ok == pg.tx # "aborted" /\ PgView(pg)[ti].exists
       IN  \/ /\ delete_ok
              /\ pg' = PgExecOk(pg, <<OpClear(ti)>>)
              /\ pc' = "select"
              /\ SameTable
              /\ UNCHANGED << faults, tableVars >>
           \/ /\ ~delete_ok \/ CanFault
              /\ faults' = IF delete_ok THEN faults + 1 ELSE faults
              /\ pg' = PgExecFail(pg)
              /\ NextTableWith("error")
    /\ issued' = <<DeleteStmt(always_quoted(tname))>>
    /\ UNCHANGED << runVars, names, srcTx, report, tallyVars >>
    /\ UNCHANGED row_failed
    /\ UNCHANGED << since_commit, summary, interrupted, cv >>

\* lines 73-78: read every row; an empty table is left with `continue`
S_Select ==
    /\ prog = "migrate_simple" /\ pc = "select"
    /\ \/ /\ \E n \in 0..MaxRows :
               IF n = 0
               THEN NextTableWith("skipped")
               ELSE /\ raw_rows' = SelectAll(n)
                    /\ total_rows' = n
                    /\ row_idx' = 1
                    /\ pc' = "row"
                    /\ SameTable
                    /\ UNCHANGED << schema, source_has, common_columns, retry_count, reset_failed,
                                    processed_rows, failed_rows, success_count, bad >>
          /\ UNCHANGED faults
       \/ /\ CanFault
          /\ faults' = faults + 1
          /\ NextTableWith("error")
    /\ issued' = << >>
    /\ UNCHANGED << runVars, names, pg, srcTx, report, tallyVars >>
    /\ UNCHANGED row_failed
    /\ UNCHANGED << since_commit, summary, interrupted, cv >>

\* lines 81-82: the insert column list, from the source schema
SimpleInsertColumns == [i \in DOMAIN schema |-> simple_safe_column(schema[i])]

\* lines 88-94: SELECT * yields the values in the source column order
SimpleCleanedRow(r) == ReadRow(r, schema)

\* lines 87-100: one row; an exception is printed and the loop goes on
S_Row ==
    /\ prog = "migrate_simple" /\ pc = "row"
    /\ LET r == raw_rows[row_idx]
           insertable == InsertSucceeds(pg, ti, schema, FALSE)
       IN  /\ \E isBad \in BOOLEAN :
                /\ isBad => (insertable /\ Cardinality(bad) < MaxBad)
                /\ bad' = IF isBad THEN bad \cup {r} ELSE bad
                /\ IF insertable /\ ~isBad
                   THEN /\ pg' = PgExecOk(pg, <<OpIns(ti, r)>>)
                        /\ UNCHANGED row_failed
                   ELSE /\ pg' = PgExecFail(pg)
                        /\ row_failed' = TRUE
           /\ issued' = <<InsertStmt(always_quoted(tname), SimpleInsertColumns,
                                     SimpleCleanedRow(r))>>
    /\ IF row_idx < Len(raw_rows)
       THEN /\ row_idx' = row_idx + 1
            /\ UNCHANGED pc
       ELSE /\ pc' = "commit"
            /\ UNCHANGED row_idx
    /\ SameTable
    /\ UNCHANGED << runVars, names, srcTx, report, faults, tallyVars >>
    /\ UNCHANGED << schema, source_has, common_columns, total_rows, processed_rows,
                    failed_rows, raw_rows, success_count, retry_count, reset_failed >>
    /\ UNCHANGED left
    /\ UNCHANGED << since_commit, summary, interrupted, cv >>

\* lines 102-103: commit, then "Migrated len(rows) rows"
S_Commit ==
    /\ prog = "migrate_simple" /\ pc = "commit"
    /\ \/ /\ pg' = PgCommit(pg)
          /\ report' = [migrated |-> Len(raw_rows), failed |-> 0, total |-> total_rows]
          /\ NextTableWith("completed")
          /\ UNCHANGED faults
       \/ /\ CanFault
          /\ faults' = faults + 1
          /\ pg' = PgRollback(pg)
          /\ NextTableWith("error")
          /\ UNCHANGED report
    /\ issued' = <<CommitStmt>>
    /\ UNCHANGED << runVars, names, srcTx, tallyVars >>
    /\ UNCHANGED row_failed
    /\ UNCHANGED << since_commit, summary, interrupted, cv >>

\* lines 109-119 and 122-123: return True, finally: close everything
S_Done ==
    /\ prog = "migrate_simple" /\ pc = "loop" /\ ti > NTables
    /\ conn' = AllClosed(conn)
    /\ Exit(SimpleExitCode(TRUE))
    /\ issued' = << >>
    /\ UNCHANGED << prog, integrity, ti, names, pg, srcTx, status, report, faults >>
    /\ UNCHANGED << tableVars, tallyVars >>
    /\ UNCHANGED row_failed
    /\ UNCHANGED left
    /\ UNCHANGED << since_commit, summary, interrupted, cv >>

SimpleNext ==
    \/ S_Connect \/ S_ListTables \/ S_NextTable \/ S_Schema \/ S_Create
    \/ S_Delete \/ S_Select \/ S_Row \/ S_Commit \/ S_Done


(***************************************************************************)
(* Value coercion: convert_value() of improved-data-transfer.py and the    *)
(* per-item cleaning of the two SQLite scripts, as pure functions          *)
(***************************************************************************)
\* the strings that mean true (line 35)
TrueStrings == { <<"t", "r", "u", "e">>, <<"1">>, <<"y", "e", "s">>, <<"t">> }

\* line 35: value.lower() in ('true', '1', 'yes', 't')
StrMeansTrue_caseSensitive(s) == s \in TrueStrings

StrMeansTrue(s) == Lower(s) \in TrueStrings

\* line 41: target_type.startswith('character varying') or target_type == 'text';
\* information_schema reports the type name without its length
IsTextType(target_type) == target_type \in {"character varying", "text"}

\* lines 29-45
convert_value(table_name, column_name, value, target_type) ==
    IF target_type = "boolean"
    THEN IF IsInstanceInt(value) THEN VBool(PyBool(value))
         ELSE IF value.kind = "str" THEN VBool(StrMeansTrue(value.s))
         ELSE VBool(PyBool(value))
    ELSE IF target_type \in {"integer", "bigint"}
    THEN IF value = VNone THEN VNone
         ELSE IF IsDigit(PyStr(value)) THEN PyInt(value) ELSE VNone
    ELSE IF IsTextType(target_type)
    THEN IF value = VNone THEN VNone
         ELSE VStr(StripNul(PyStr(value)))
    ELSE value

\* openwebui-migration.py lines 290-301: bytes are decoded, null bytes are
\* removed from str items, everything else is kept
MigrateCleanItem(item) ==
    IF item.kind = "bytes" THEN VStr(DecodeUtf8Replace(item.s))
    ELSE IF item.kind = "str" THEN VStr(StripNul(item.s))
    ELSE item

\* simple-migration.py lines 90-94
SimpleCleanItem(item) ==
    IF item.kind = "str" THEN VStr(StripNul(item.s))
    ELSE item

(* inputs *)
\* longest enumerated string and bytes object
MaxStrLen == 2
\* largest enumerated integer magnitude
MaxInt == 11

StringsUpTo(alphabet, n) == UNION { [1..k -> alphabet] : k \in 0..n }

CoerceAlphabet == {"0", "1", "t", "T", "a", "-", NulChar, SuperscriptTwo}

SampleStrings ==
    { <<"t", "r", "u", "e">>, <<"T", "r", "u", "e">>, <<"Y", "e", "s">>, <<"y", "e", "s">>,
      <<"f", "a", "l", "s", "e">>, <<"n", "o">>, <<"a", "b", "c">>, <<"4", "2">>,
      <<"-", "5">>, <<"4", ".", "5">>, <<"a", NulChar, "b">> }

CoerceValues ==
    {VNone, VBool(TRUE), VBool(FALSE)}
    \cup { VInt(n) : n \in ((0 - MaxInt)..MaxInt) \cup {42} }
    \cup { VFloat(0, <<"0", ".", "0">>), VFloat(4, <<"4", ".", "5">>),
           VFloat(42, <<"4", "2", ".", "0">>) }
    \cup { VStr(s) : s \in StringsUpTo(CoerceAlphabet, MaxStrLen) \cup SampleStrings }
    \cup { VBytes(s) : s \in StringsUpTo({"a", NulChar, InvalidByte}, MaxStrLen)
                            \cup { <<"a", NulChar, "b">> } }

\* data_type values of information_schema.columns
TargetTypes == {"boolean", "integer", "bigint", "character varying", "text",
                "character", "jsonb"}

CoerceInputs ==
    { [op |-> "convert_value", stage |-> 0, target_type |-> t, value |-> v,
       result |-> NoValue, again |-> NoValue] : t \in TargetTypes, v \in CoerceValues }
    \cup
    { [op |-> o, stage |-> 0, target_type |-> "none", value |-> v,
       result |-> NoValue, again |-> NoValue] :
         o \in {"migrate_clean", "simple_clean"}, v \in CoerceValues }

CoerceInit ==
    /\ prog = "coercion"
    /\ InitState
    /\ cv \in CoerceInputs

\* convert_value(table_name, col_name, value, target_type) at line 131
C_Convert ==
    /\ cv.op = "convert_value" /\ cv.stage = 0
    /\ cv' = [cv EXCEPT !.stage = 1,
                        !.result = convert_value(Id_chat, Id_id, cv.value, cv.target_type)]
    /\ UNCHANGED processVars

\* the result is handed to convert_value once more
C_ConvertAgain ==
    /\ cv.op = "convert_value" /\ cv.stage = 1 /\ cv.result # Raised
    /\ cv' = [cv EXCEPT !.stage = 2,
                        !.again = convert_value(Id_chat, Id_id, cv.result, cv.target_type)]
    /\ UNCHANGED processVars

\* one item of a row in migrate
C_MigrateClean ==
    /\ cv.op = "migrate_clean" /\ cv.stage = 0
    /\ cv' = [cv EXCEPT !.stage = 1, !.result = MigrateCleanItem(cv.value)]
    /\ UNCHANGED processVars

\* one item of a row in migrate_simple
C_SimpleClean ==
    /\ cv.op = "simple_clean" /\ cv.stage = 0
    /\ cv' = [cv EXCEPT !.stage = 1, !.result = SimpleCleanItem(cv.value)]
    /\ UNCHANGED processVars

CoerceNext == C_Convert \/ C_ConvertAgain \/ C_MigrateClean \/ C_SimpleClean

(***************************************************************************)
(* Properties                                                              *)
(***************************************************************************)
\* the table that was left last, and what the target holds of it
LastTable == ti - 1

\* a table has just reached its completion line
JustCompleted ==
    /\ pc = "loop" /\ ti > 1
    /\ left.valid
    /\ status[LastTable] = "completed"

\* source rows of the last table that are committed in the target
Landed == NewRows(pg.db[LastTable].rows)

\* the last table is in the target and every insert column is one of its columns
TargetFits ==
    /\ pg.db[LastTable].exists
    /\ Range(left.source_columns) \subseteq Range(pg.db[LastTable].cols)

\* C1: once a table of migrate or transfer_data is completed, the target
\* holds as many of its rows as the source has, less the rows reported failed
\* (stated for runs in which no environment fault occurred).
C1_RowCountAfterMigration ==
    (/\ prog \in {"migrate", "transfer_data"}
     /\ JustCompleted
     /\ TargetFits
     /\ faults = 0)
    => Len(Landed) = report.total - report.failed

\* C2: when exactly one row of a table is rejected and nothing else goes
\* wrong, every other row of the table is committed in the target and exactly
\* one row is reported failed.
C2_RowIsolation ==
    (/\ prog \in {"migrate", "transfer_data"}
     /\ JustCompleted
     /\ TargetFits
     /\ faults = 0
     /\ LastTable = 1
     /\ Cardinality(left.bad) = 1)
    => /\ Range(Landed) = (1..report.total) \ left.bad
       /\ report.failed = 1

\* the table loop was entered
LoopEntered == Len(names) >= 1

\* C3: once the table loop runs, the run ends only after every table of the
\* list has been attempted, whatever happened to the tables before it.
C3_TableIsolation ==
    (pc = "exited" /\ LoopEntered /\ ~interrupted) => \A t \in Tables : status[t] # "pending"

\* the table loop ran to its end
RunFinished == pc = "exited" /\ ti > NTables /\ ~interrupted

\* C4: a finished run exits with status 0 exactly when no insert failed.
C4_ExitStatus ==
    (RunFinished /\ prog \in {"migrate", "transfer_data"}) => (exitCode = 0 <=> ~row_failed)

InitialPg == [db |-> [t \in Tables |-> AbsentTable], pend |-> << >>, tx |-> "idle"]

\* C5: migrate sends nothing to the target, and does not even open the
\* target connection, unless the integrity check returned healthy; when the
\* check fails the process has exited with status 1.
C5_IntegrityGate ==
    prog = "migrate" =>
        /\ (issued # << >> \/ conn.tgt # "none" \/ pg # InitialPg)
              => integrity = "healthy"
        /\ integrity = "bad"
              => (pc = "exited" /\ exitCode = 1 /\ conn.tgt = "none")

\* a row is inserted after a healthy check
C5_Witness ==
    /\ prog = "migrate" /\ integrity = "healthy"
    /\ \E i \in DOMAIN issued : issued[i].kind = "INSERT"
    /\ pg.tx = "open"

InTable == pc \in {"exists", "schemas", "clear", "select", "row", "commit"}

OldRowsOnly(rows) == rows = [i \in 1..MaxOld |-> 0]

\* C6: transfer_data never gets past the existence check for a table the
\* source does not hold: no DELETE and no INSERT is issued for it, the target
\* table keeps its rows, nothing is reported for it, and it is left as
\* skipped whenever the source connection answered the check.
C6_AbsentSourceTableSkipped ==
    prog = "transfer_data" =>
        /\ (InTable /\ ~source_has) => (pc = "exists" /\ issued = << >>)
        /\ (pc = "loop" /\ ti > 1 /\ left.valid /\ ~left.source_has)
              => /\ issued = << >>
                 /\ report = NoReport
                 /\ OldRowsOnly(pg.db[LastTable].rows)
                 /\ pg.pend = << >>
                 /\ (srcTx # "aborted" => status[LastTable] = "skipped")

\* a table absent from the source has been skipped
C6_Witness ==
    /\ prog = "transfer_data" /\ pc = "loop" /\ ti > 1
    /\ left.valid /\ ~left.source_has
    /\ status[LastTable] = "skipped"
    /\ OldRowsOnly(pg.db[LastTable].rows)

Transferring == pc \in {"batch", "row", "commit", "complete"}

\* C7: a table of migrate that has entered the batch loop leaves it only by
\* reaching its completion line.
C7_TransferringReachesCompleted ==
    [][ (prog = "migrate" /\ Transferring /\ ~interrupted')
          => (Transferring' \/ status'[ti] = "completed") ]_vars

\* C8: when the process has ended, no connection or cursor is left open.
C8_AllReleased ==
    pc = "exited" =>
        /\ conn.src # "open" /\ conn.srcCur # "open"
        /\ conn.tgt # "open" /\ conn.tgtCur # "open"

\* the reserved words the quoting rule is stated for
ClaimReserved == simple_reserved

QuotedIfReserved(tok) == Lower(tok.text) \in ClaimReserved => tok.quoted

\* C9: in every CREATE, TRUNCATE, DELETE and INSERT sent to the target, the
\* table name and every column name that is user, order or group in any
\* letter case is quoted.
C9_ReservedWordsQuoted ==
    \A i \in DOMAIN issued :
        issued[i].kind # "COMMIT" =>
            /\ QuotedIfReserved(issued[i].table)
            /\ \A j \in DOMAIN issued[i].cols : QuotedIfReserved(issued[i].cols[j])

\* an INSERT into table Order with a column Group has been sent
C9_Witness ==
    \E i \in DOMAIN issued :
        /\ issued[i].kind = "INSERT"
        /\ issued[i].table.text = Id_Order
        /\ \E j \in DOMAIN issued[i].cols : issued[i].cols[j].text = Id_Group

\* C10: every INSERT carries as many values as columns, and the value at
\* position i was read from the source column that the i-th insert column names.
C10_ColumnAlignment ==
    \A i \in DOMAIN issued :
        issued[i].kind = "INSERT" =>
            /\ Len(issued[i].vals) = Len(issued[i].cols)
            /\ \A j \in DOMAIN issued[i].cols :
                   issued[i].vals[j].col = issued[i].cols[j].text

\* a row of several columns has been inserted and is part of the transaction
C10_Witness ==
    \E i \in DOMAIN issued :
        /\ issued[i].kind = "INSERT"
        /\ Len(issued[i].cols) >= 2
        /\ pg.tx = "open"
        /\ pg.pend # << >>
\* C11: every INSERT sent for a table that is already in the target names
\* only columns that both the source table and the target table have.
C11_OnlyCommonColumns ==
    (/\ prog \in {"migrate", "transfer_data"}
     /\ pc \in {"row", "commit"}
     /\ PgView(pg)[ti].exists)
    => \A i \in DOMAIN issued :
          issued[i].kind = "INSERT" =>
             \A j \in DOMAIN issued[i].cols :
                /\ issued[i].cols[j].text \in Range(schema)
                /\ issued[i].cols[j].text \in Range(PgView(pg)[ti].cols)

\* C18: when the reset of a table fails in migrate and nothing else goes
\* wrong, the table still completes with every source row committed in the
\* target next to the rows that were there before.
C18_ResetFailureTolerated ==
    (/\ prog = "migrate"
     /\ JustCompleted
     /\ left.reset_failed
     /\ TargetFits
     /\ left.bad = {}
     /\ faults <= 1)
    => /\ Range(Landed) = 1..report.total
       /\ Len(pg.db[LastTable].rows) = MaxOld + report.total

\* the bookkeeping tables the exclusion rule is stated for
ClaimSystemTables == sql_excluded_tables

C19_MigratedEqualsCommitted ==
    (JustCompleted /\ faults = 0) => report.migrated = Len(Landed)


\* convert_value has returned for the given target types
Converted(types) ==
    /\ cv.op = "convert_value" /\ cv.stage >= 1
    /\ cv.target_type \in types

\* C12: for target type boolean, convert_value returns a boolean: true for a
\* nonzero integer and for the strings true, 1, yes, t in any letter case,
\* false for the integer 0 and for every other string.
C12_BooleanCoercion ==
    Converted({"boolean"}) =>
        /\ cv.result \in {VBool(TRUE), VBool(FALSE)}
        /\ cv.value.kind = "int" => cv.result = VBool(cv.value.n # 0)
        /\ cv.value.kind = "str" =>
              cv.result = VBool(Lower(cv.value.s) \in
                                  { <<"t", "r", "u", "e">>, <<"1">>, <<"y", "e", "s">>, <<"t">> })
        /\ cv.value \in { VInt(1), VStr(<<"t", "r", "u", "e">>), VStr(<<"Y", "e", "s">>),
                          VStr(<<"T">>) } => cv.result = VBool(TRUE)
        /\ cv.value \in { VInt(0), VStr(<<"f", "a", "l", "s", "e">>), VStr(<< >>),
                          VStr(<<"n", "o">>) } => cv.result = VBool(FALSE)

\* the string Yes has been coerced to true
C12_Witness ==
    /\ Converted({"boolean"})
    /\ cv.value = VStr(<<"Y", "e", "s">>)
    /\ cv.result = VBool(TRUE)

\* an integer, or a text that is a decimal literal with an optional sign
NumericLooking(value) ==
    \/ value.kind = "int"
    \/ value.kind = "str" /\ IsDecimalText(value.s)

\* the integer a numeric-looking value stands for
NumericValue(value) ==
    IF value.kind = "int" THEN value.n
    ELSE IF value.s[1] = "-" THEN 0 - ParseNat(Tail(value.s))
    ELSE ParseNat(value.s)

\* C13: for target type integer or bigint, convert_value never raises; it
\* returns None for None, the integer for every integer and every decimal
\* text, and None for every text that is no number.
C13_IntegerCoercion ==
    Converted({"integer", "bigint"}) =>
        /\ cv.result # Raised
        /\ cv.value = VNone => cv.result = VNone
        /\ NumericLooking(cv.value) => cv.result = VInt(NumericValue(cv.value))
        /\ (cv.value.kind = "str" /\ ~NumericLooking(cv.value)) => cv.result = VNone

\* a coercion of text has returned: convert_value for a text type, or the
\* cleaning of an item in migrate or migrate_simple
TextCoerced ==
    \/ Converted({"character varying", "text"})
    \/ cv.op \in {"migrate_clean", "simple_clean"} /\ cv.stage >= 1

\* C14: a text handed to the target insert holds no null character; it is
\* the source string, or the text decoded from the source bytes, with every
\* null character removed.
C14_NullBytesStripped ==
    (TextCoerced /\ cv.result.kind = "str") =>
        /\ NulChar \notin Range(cv.result.s)
        /\ cv.value.kind = "str" =>
              cv.result.s = SelectSeq(cv.value.s, LAMBDA c : c # NulChar)

\* C15: convert_value applied to its own result, for the same target type,
\* returns that result again.
C15_CoercionIdempotent ==
    (cv.op = "convert_value" /\ cv.stage = 2) => cv.again = cv.result

\* a string with a null character, coerced to text twice
C15_Witness ==
    /\ cv.op = "convert_value" /\ cv.stage = 2
    /\ cv.target_type = "text"
    /\ cv.value = VStr(<<"a", NulChar, "b">>)
    /\ cv.again = VStr(<<"a", "b">>)

\* C17: when migrate was interrupted after it had completed a table, the
\* process has ended with a nonzero status, no connection or cursor is left
\* open, and the totals of rows migrated and failed so far have been reported.
C17_InterruptHandled ==
    (prog = "migrate" /\ interrupted /\ \E t \in Tables : status[t] = "completed") =>
        /\ pc = "exited" /\ exitCode # 0
        /\ conn = AllClosed(conn)
        /\ summary.printed
        /\ summary.migrated = total_migrated_rows
        /\ summary.failed = total_failed_rows

\* the COMMITs among the statements a step has sent
Commits(stmts) == { i \in DOMAIN stmts : stmts[i].kind = "COMMIT" }

\* C20: in the batch loop of migrate no commit is sent while a batch is read
\* or between its rows, exactly one commit is sent once every row of the
\* batch has been attempted, and never more than BATCH_SIZE inserts are sent
\* between two commits.
C20_OneCommitPerBatch ==
    [][ (prog = "migrate" /\ ~interrupted') =>
          /\ since_commit' <= BATCH_SIZE
          /\ pc \in {"batch", "row"} => Commits(issued') = {}
          /\ pc = "commit" => /\ Cardinality(Commits(issued')) = 1
                              /\ row_idx = Len(raw_rows)
                              /\ since_commit = Len(raw_rows) ]_vars

\* a second batch is being inserted after the commit of a full first batch
C20_Witness ==
    /\ prog = "migrate" /\ pc = "row"
    /\ processed_rows = BATCH_SIZE
    /\ row_idx = 1
    /\ since_commit = 0


\* nothing but failing batch reads went wrong for the table that was just
\* completed: it is in the target with fitting columns, its reset succeeded
\* and no insert of it was rejected
OnlyReadsFailed ==
    /\ prog = "migrate"
    /\ JustCompleted
    /\ TargetFits
    /\ ~left.reset_failed
    /\ left.bad = {}
    /\ report.failed = 0

\* the source rows of the last table that lay in a skipped offset window:
\* when only batch reads failed, these are the rows the target does not hold
SkippedRows == (1..report.total) \ Range(Landed)

\* C21: when batch reads of a table fail with a source database error, the
\* rows of the skipped offset windows are not counted as migrated: the
\* completion line counts at most the rows outside the skipped windows.
C21_SkippedWindowNotCounted ==
    OnlyReadsFailed => report.migrated <= report.total - Cardinality(SkippedRows)

\* the number of source rows of the current table attempted so far
Attempted ==
    CASE pc = "row"    -> processed_rows + row_idx - 1
      [] pc = "commit" -> processed_rows + Len(raw_rows)
      [] OTHER         -> processed_rows

\* the source rows the INSERTs of a step were built from
InsertedRows(stmts) ==
    [i \in DOMAIN SelectSeq(stmts, LAMBDA s : s.kind = "INSERT") |->
        SelectSeq(stmts, LAMBDA s : s.kind = "INSERT")[i].vals[1].row]

\* C22: absent errors, the batch reads of a table in migrate use the offsets
\* 0, BATCH_SIZE, 2*BATCH_SIZE, ... in increasing order, a batch has at most
\* BATCH_SIZE rows, and the source rows are attempted one by one in storage
\* order, each exactly once, until all of them have been attempted.
C22_SequentialPagination ==
    [][ (prog = "migrate" /\ faults' = 0 /\ ~interrupted') =>
          /\ (pc = "count" /\ pc' = "batch") => Attempted' = 0
          /\ (pc = "batch") =>
                /\ processed_rows % BATCH_SIZE = 0
                /\ Len(raw_rows') \in 1..BATCH_SIZE
                /\ raw_rows' = [i \in 1..Len(raw_rows') |-> processed_rows + i]
                /\ Attempted' = Attempted
          /\ (pc = "row") =>
                /\ InsertedRows(issued') = <<Attempted + 1>>
                /\ Attempted' = Attempted + 1
          /\ (pc = "commit") =>
                /\ Attempted' = Attempted
                /\ pc' = "batch" => processed_rows' = processed_rows + BATCH_SIZE
          /\ (pc' = "complete") => Attempted' = total_rows ]_vars

\* the last, short batch of a table has been read at offset BATCH_SIZE
C22_Witness ==
    /\ prog = "migrate" /\ pc = "row" /\ faults = 0
    /\ processed_rows = BATCH_SIZE
    /\ Len(raw_rows) < BATCH_SIZE
    /\ total_rows = BATCH_SIZE + Len(raw_rows)

\* the run tally of migrate
RunTally == << total_migrated_rows, total_failed_rows >>

\* C23: the totals of rows migrated and failed of a migrate run start at
\* zero, never decrease, and change only in the step in which a table reaches
\* its completion line; no step in the middle of a table's transfer moves them.
C23_TallyDiscipline ==
    [][ prog = "migrate" =>
          /\ total_migrated_rows >= 0 /\ total_failed_rows >= 0
          /\ total_migrated_rows' >= total_migrated_rows
          /\ total_failed_rows' >= total_failed_rows
          /\ RunTally' # RunTally =>
                /\ pc = "complete"
                /\ status[ti] # "completed" /\ status'[ti] = "completed"
          /\ (Transferring /\ Transferring') => RunTally' = RunTally ]_vars

\* the second table is being transferred while the tally holds the migrated
\* and the failed rows of the first
C23_Witness ==
    /\ prog = "migrate" /\ ti = 2 /\ pc = "row"
    /\ status[1] = "completed"
    /\ total_migrated_rows > 0 /\ total_failed_rows > 0

\* the last table was found empty in the source, after its reset
FoundEmpty ==
    /\ left.valid
    /\ status[LastTable] = "skipped"
    /\ left.source_columns # << >>

\* the run has ended and the last table was migrated without any failure,
\* its reset included
RanClean ==
    /\ RunFinished
    /\ faults = 0 /\ ~row_failed
    /\ left.valid /\ ~left.reset_failed
    /\ (status[LastTable] = "completed" \/ FoundEmpty)

\* the rows of the source table, as a run without failure leaves them in the target
SourceContents == IF FoundEmpty THEN << >> ELSE SelectAll(report.total)

\* C24: after a run in which a table was reset and migrated without failure,
\* the target table holds the rows of the source table and nothing else,
\* whatever it held before: no row from before the run is left, also when
\* the source table is empty, so a second run against the unchanged source
\* leaves what the first one left.
C24_IdempotentRerun ==
    RanClean => pg.db[LastTable].rows = SourceContents

\* a table after the first is about to send its first statement on a
\* connection that earlier tables have used: the existence probe of migrate,
\* the CREATE of migrate_simple, the source query of transfer_data
SendsFirstStatement ==
    /\ ti >= 2
    /\ \/ prog = "migrate" /\ pc = "ensure"
       \/ prog = "migrate_simple" /\ pc = "create"
       \/ prog = "transfer_data" /\ pc = "exists"

\* C25: what happens to a table does not depend on what happened to the
\* tables before it: unless the environment fails in that very step, the
\* first statement of a later table is executed as on a fresh connection (it
\* does not raise because of a transaction an earlier table left aborted),
\* and the table does not end in an error at that statement.
C25_TableIndependence ==
    [][ (SendsFirstStatement /\ faults' = faults /\ ~interrupted') =>
          /\ pg'.tx # "aborted"
          /\ status'[ti] # "error" ]_vars

\* C26: while a table of migrate is in its batch loop, processed_rows stays
\* between 0 and total_rows, and the completion line never reports more rows
\* migrated than the source table has, batch read failures included.
C26_ProcessedWithinTotal ==
    prog = "migrate" =>
        /\ Transferring => (0 <= processed_rows /\ processed_rows <= total_rows)
        /\ JustCompleted => report.migrated <= report.total

(* ---------------------------- specification --------------------------- *)
Next == MigrateNext \/ TransferNext \/ SimpleNext

Spec == Init /\ [][Next]_vars

\* the coercion functions applied to every enumerated input
CoerceSpec == CoerceInit /\ [][CoerceNext]_vars

====
